---- MODULE Spec2Model ----
(***************************************************************************)
(* A model of the Jagriti case-search backend: the JagritiService of       *)
(* app/services/jagriti_service.py, the routes of app/api/routes and the   *)
(* lifespan of main.py.                                                    *)
(*                                                                         *)
(* Texts (names, HTML) are sequences of one-character strings, so that     *)
(* str.upper, str.lower, str.strip and the substring test act on them as   *)
(* Python's do.                                                            *)
(***************************************************************************)
EXTENDS Integers, Sequences, FiniteSets, TLC

VARIABLES
    session,            \* JagritiService.session: "none", "open" or "closed"
    states_cache,       \* JagritiService.states_cache: upper-cased name -> State
    commissions_cache,  \* JagritiService.commissions_cache: state id -> list of Commission
    pc,                 \* where each unit of work stands (the lifespan and the requests)
    req,                \* the request each unit of work serves
    loc,                \* the local variables of the run
    calls,              \* the _make_request calls the run has issued, in order
    out,                \* what the routing layer answered
    xframe,             \* one _make_request call, attempt by attempt
    xlog,               \* the attempts and sleeps of that call, in order
    q_in,               \* a function applied on its own: which, and its argument
    q_out               \* its result

vars == <<session, states_cache, commissions_cache, pc, req, loc, calls, out,
          xframe, xlog, q_in, q_out>>

svcVars == <<session, states_cache, commissions_cache, pc, req, loc, calls, out>>
execVars == <<xframe, xlog>>
resVars == <<q_in, q_out>>

None == "None"

-----------------------------------------------------------------------------
(* Texts *)

Lowers == <<"a","b","c","d","e","f","g","h","i","j","k","l","m","n","o","p","q","r","s","t","u","v","w","x","y","z">>
Uppers == <<"A","B","C","D","E","F","G","H","I","J","K","L","M","N","O","P","Q","R","S","T","U","V","W","X","Y","Z">>

\* str.upper and str.lower, one character at a time
UpperChar(c) ==
    IF \E i \in 1..Len(Lowers) : Lowers[i] = c
    THEN Uppers[CHOOSE i \in 1..Len(Lowers) : Lowers[i] = c]
    ELSE c

LowerChar(c) ==
    IF \E i \in 1..Len(Uppers) : Uppers[i] = c
    THEN Lowers[CHOOSE i \in 1..Len(Uppers) : Uppers[i] = c]
    ELSE c

Upper(s) == [i \in 1..Len(s) |-> UpperChar(s[i])]
Lower(s) == [i \in 1..Len(s) |-> LowerChar(s[i])]

IsSpace(c) == c = " "

\* str.strip: leading and trailing white space removed
RECURSIVE LStrip(_)
LStrip(s) == IF s # <<>> /\ IsSpace(Head(s)) THEN LStrip(Tail(s)) ELSE s

RECURSIVE RStrip(_)
RStrip(s) ==
    IF s # <<>> /\ IsSpace(s[Len(s)]) THEN RStrip(SubSeq(s, 1, Len(s) - 1)) ELSE s

Strip(s) == RStrip(LStrip(s))

\* Python's  m in s  on texts
Contains(s, m) ==
    \E i \in 1..(Len(s) - Len(m) + 1) : SubSeq(s, i, i + Len(m) - 1) = m

-----------------------------------------------------------------------------
(* Challenge sentinel *)

markers ==
    { <<"c","a","p","t","c","h","a">>,
      <<"g","-","r","e","c","a","p","t","c","h","a">>,
      <<"c","f","-","c","h","a","l","l","e","n","g","e">>,
      <<"p","l","e","a","s","e"," ","v","e","r","i","f","y"," ","y","o","u"," ",
        "a","r","e"," ","a"," ","h","u","m","a","n">> }

\* a faulty sentinel, which forgets to lower-case the html
detect_captcha_case_sensitive(html) ==
    IF html = <<>> THEN FALSE
    ELSE \E m \in markers : Contains(html, m)

\* _detect_captcha
detect_captcha(html) ==
    IF html = <<>> THEN FALSE
    ELSE \E m \in markers : Contains(Lower(html), m)

-----------------------------------------------------------------------------
(* Settings *)

MAX_RETRIES == 3
DELAY_BETWEEN_REQUESTS == 1

-----------------------------------------------------------------------------
(* Exceptions: a class and what the message says *)

Exc(cls, msg) == [cls |-> cls, msg |-> msg]
NoExc == Exc("none", "")

\* aiohttp.ClientError and its subclasses, and asyncio.TimeoutError:
\* what the except clause of _make_request catches
TransportClasses == {"ClientResponseError", "ClientConnectionError", "TimeoutError"}

-----------------------------------------------------------------------------
(* _make_request: the retry loop *)

Status(code) == [kind |-> "status", code |-> code, cls |-> None]
NoOutcome == [kind |-> "none", code |-> 0, cls |-> None]
Failure(cls) == [kind |-> "exc", code |-> 0, cls |-> cls]

\* What one transport attempt can come to: a response with a status, or an
\* exception of the transport (a timeout, a connection failure).
Outcomes ==
    { Status(200), Status(204), Status(404), Status(429), Status(500),
      Failure("TimeoutError"), Failure("ClientConnectionError") }

TransportFailures == { o \in Outcomes : o.kind = "exc" }

\* a faulty except clause, which gives up one attempt early
ExceptHandlerEarly(attempt, cls) ==
    IF attempt >= MAX_RETRIES - 2
    THEN [act |-> "raise", exc |-> Exc(cls, "transport"), delay |-> 0]
    ELSE [act |-> "sleep", exc |-> NoExc, delay |-> DELAY_BETWEEN_REQUESTS * (attempt + 1)]

\* the except clause: the last attempt re-raises, any other sleeps and goes on
ExceptHandler(attempt, cls) ==
    IF attempt = MAX_RETRIES - 1
    THEN [act |-> "raise", exc |-> Exc(cls, "transport"), delay |-> 0]
    ELSE [act |-> "sleep", exc |-> NoExc, delay |-> DELAY_BETWEEN_REQUESTS * (attempt + 1)]

\* response.raise_for_status(): ClientResponseError for a status of 400 and
\* above, nothing otherwise
RaisesForStatus(code) == code >= 400

\* One pass of the loop body for the 0-based attempt and what the transport
\* did. ClientResponseError is a ClientError and is raised inside the try, so
\* the except clause handles it like a transport failure.
MakeRequestIter(attempt, o) ==
    IF o.kind = "exc" THEN ExceptHandler(attempt, o.cls)
    ELSE IF o.code = 200 THEN [act |-> "return", exc |-> NoExc, delay |-> 0]
    ELSE IF o.code = 429
        THEN [act |-> "sleep", exc |-> NoExc, delay |-> DELAY_BETWEEN_REQUESTS * (attempt + 1)]
    ELSE IF RaisesForStatus(o.code) THEN ExceptHandler(attempt, "ClientResponseError")
    ELSE [act |-> "next", exc |-> NoExc, delay |-> 0]

\* A call in flight: the 0-based attempt, and whether it is about to send
\* ("request"), is asleep ("sleep"), has returned a response or has raised.
NewFrame == [attempt |-> 0, mode |-> "request", exc |-> NoExc, response |-> 0, delay |-> 0]

\* a faulty loop, which makes one pass too many
LoopNextOneMore(fr) ==
    IF fr.attempt + 1 < MAX_RETRIES + 1
    THEN [fr EXCEPT !.attempt = fr.attempt + 1, !.mode = "request", !.delay = 0]
    ELSE [fr EXCEPT !.mode = "raised", !.exc = Exc("Exception", "Max retries exceeded"),
                    !.delay = 0]

\* the for loop goes to its next pass, or ends and line 76 raises
LoopNext(fr) ==
    IF fr.attempt + 1 < MAX_RETRIES
    THEN [fr EXCEPT !.attempt = fr.attempt + 1, !.mode = "request", !.delay = 0]
    ELSE [fr EXCEPT !.mode = "raised", !.exc = Exc("Exception", "Max retries exceeded"),
                    !.delay = 0]

\* the frame after one attempt with outcome o
AfterAttempt(fr, o) ==
    LET r == MakeRequestIter(fr.attempt, o) IN
    CASE r.act = "return" -> [fr EXCEPT !.mode = "returned", !.response = fr.attempt + 1]
      [] r.act = "raise"  -> [fr EXCEPT !.mode = "raised", !.exc = r.exc]
      [] r.act = "sleep"  -> [fr EXCEPT !.mode = "sleep", !.delay = r.delay]
      [] OTHER            -> LoopNext(fr)

\* the whole call, given what each attempt comes to
RECURSIVE RunMakeRequest(_, _)
RunMakeRequest(fr, outs) ==
    IF fr.mode = "request" THEN RunMakeRequest(AfterAttempt(fr, Head(outs)), Tail(outs))
    ELSE IF fr.mode = "sleep" THEN RunMakeRequest(LoopNext(fr), outs)
    ELSE fr

-----------------------------------------------------------------------------
(* One _make_request call, step by step *)

\* asyncio.sleep(...) is an await of its own: the call is asleep between the
\* attempt that failed and the next pass of the loop
XAttempt ==
    /\ xframe.mode = "request"
    /\ \E o \in Outcomes :
        /\ xframe' = AfterAttempt(xframe, o)
        /\ xlog' = Append(xlog, [ev |-> "attempt", n |-> xframe.attempt + 1,
                                 outcome |-> o, delay |-> 0])
    /\ UNCHANGED <<svcVars, resVars>>

XWake ==
    /\ xframe.mode = "sleep"
    /\ xframe' = LoopNext(xframe)
    /\ xlog' = Append(xlog, [ev |-> "sleep", n |-> xframe.attempt + 1,
                             outcome |-> NoOutcome, delay |-> xframe.delay])
    /\ UNCHANGED <<svcVars, resVars>>


-----------------------------------------------------------------------------
(* The portal: the pages it can answer with *)

Opt(value, text) == [value |-> value, text |-> text]

PlainHtml == <<"o","k">>
ChallengeHtml == <<"C","a","p","t","C","h","a">>

\* the entry page: its html text and the options of its state select (no
\* select and a select without options parse alike: no option)
StatesPages ==
    { [html |-> PlainHtml,
       options |-> << Opt("", <<"S","e","l">>), Opt("s1", <<" ","K","a"," ">>),
                      Opt("s9", <<" "," ">>), Opt("s2", <<"g","o">>) >>],
      [html |-> PlainHtml, options |-> << Opt("", <<"S","e","l">>) >>],
      [html |-> ChallengeHtml, options |-> << Opt("s1", <<"k","a">>) >>] }

\* the entry page filtered by a state id: the options of its commission select
CommissionOptions(state_id) ==
    CASE state_id = "s1" ->
            { << Opt("", <<"S","e","l">>), Opt("c1", <<"A","l">>), Opt("c2", <<" ","B","e">>) >>,
              << Opt("c1", <<"A","l">>) >> }
      [] state_id = "s2" ->
            { << Opt("c3", <<"B","e">>), Opt("c4", <<"G","a"," ">>) >> }
      [] OTHER -> {}

CommissionsPages(state_id) ==
    { [html |-> PlainHtml, options |-> o] : o \in CommissionOptions(state_id) }
    \cup { [html |-> PlainHtml, options |-> << Opt("", <<"S","e","l">>) >>],
           [html |-> ChallengeHtml, options |-> << Opt("c7", <<"A","l">>) >>] }

\* an input of a form: its name and value attributes ("" when the attribute
\* is absent or empty) and its type attribute as the page writes it
Input(name, type, value) == [name |-> name, type |-> type, value |-> value]

TypeHidden == <<"h","i","d","d","e","n">>
TypeText == <<"t","e","x","t">>
TypeSubmit == <<"s","u","b","m","i","t">>

\* the entry page as the form submission reads it: its first form, if any,
\* with the method attribute and the inputs of that form in document order
FormPages ==
    { [html |-> PlainHtml, form |-> [present |-> FALSE, method |-> <<>>, inputs |-> <<>>]],
      [html |-> PlainHtml,
       form |-> [present |-> TRUE, method |-> <<"g","e","t">>,
                 inputs |-> << Input("tok", TypeHidden, "v1"),
                               Input("tok", Upper(TypeHidden), "v2"),
                               Input("state", TypeText, "zz"),
                               Input("case_no", TypeText, ""),
                               Input("go", TypeSubmit, "x"),
                               Input("", TypeHidden, "y") >>]],
      [html |-> ChallengeHtml,
       form |-> [present |-> TRUE, method |-> <<>>,
                 inputs |-> << Input("respondent_name", TypeText, "old") >>]] }

\* a row of a table: the number of cells row.find_all(['td', 'th']) gives,
\* whether something raises while its fields are extracted, the texts of its
\* first and third cells, and the anchors of its first cell in document order
Row(cells, raises, number, date, anchors) ==
    [cells |-> cells, raises |-> raises, number |-> number, date |-> date,
     anchors |-> anchors]

HeaderRow == Row(7, FALSE, <<"N","o">>, <<"D","a","t","e">>, <<>>)

\* the answer to a submission: its html text, whether a results table is
\* found in it, and the rows of that table, the header row first
ResultPages ==
    { [html |-> PlainHtml, table |-> TRUE,
       trs |-> << HeaderRow,
                  Row(7, FALSE, <<" ","r","1">>, <<"1","/","2","/","2","0","2","5">>,
                      << [has_href |-> TRUE, href |-> <<"/","c">>] >>),
                  Row(3, FALSE, <<"r","2">>, <<>>, <<>>) >>],
      [html |-> PlainHtml, table |-> FALSE, trs |-> << >>],
      [html |-> ChallengeHtml, table |-> TRUE,
       trs |-> << HeaderRow, Row(7, FALSE, <<"r","1">>, <<"N","/","A">>, <<>>) >>] }

\* response.text() is called on a response _make_request has returned out of
\* its  async with  block, so on a released response: the body is either
\* still there to read, or the read raises ClientConnectionError.
BodyReads == {"text", "closed"}

BodyClosed == Exc("ClientConnectionError", "Connection closed")

\* every way the attempts of one call can go, and what the call comes to
OutcomeSeqs == [1..MAX_RETRIES -> Outcomes]

\* how a call ends, as its caller sees it: a response, or an exception
CallEnd(fr) == [mode |-> fr.mode, exc |-> fr.exc]

CallResults == { CallEnd(RunMakeRequest(NewFrame, outs)) : outs \in OutcomeSeqs }

-----------------------------------------------------------------------------
(* The jurisdiction directory *)

\* states_cache is a dict keyed by the name its values carry: the sequence of
\* its values in insertion order. A key set anew keeps its place.
DictPut(d, st) ==
    IF \E i \in 1..Len(d) : d[i].name = st.name
    THEN [i \in 1..Len(d) |-> IF d[i].name = st.name THEN st ELSE d[i]]
    ELSE Append(d, st)

StateKeys(d) == { d[i].name : i \in 1..Len(d) }

\* option.get('value') and option.text.strip()
OptionKept(o) == o.value # "" /\ Strip(o.text) # <<>>

\* lines 92-96: every kept option is stored under its stripped, upper-cased text
RECURSIVE StoreStates(_, _)
StoreStates(d, options) ==
    IF options = <<>> THEN d
    ELSE LET o == Head(options) IN
         StoreStates(IF OptionKept(o)
                     THEN DictPut(d, [id |-> o.value, name |-> Upper(Strip(o.text))])
                     ELSE d,
                     Tail(options))

\* _load_states after its request: what it raises (NoExc: nothing) and the cache it leaves
load_states(cache, fr, rd, page) ==
    IF fr.mode = "raised" THEN [exc |-> fr.exc, cache |-> cache, parsed |-> -1]
    ELSE IF rd = "closed" THEN [exc |-> BodyClosed, cache |-> cache, parsed |-> -1]
    ELSE IF detect_captcha(page.html)
        THEN [exc |-> Exc("RuntimeError", "Captcha encountered while loading states"),
              cache |-> cache, parsed |-> -1]
    ELSE LET filled == StoreStates(cache, page.options) IN
         IF filled = <<>>
         THEN [exc |-> Exc("RuntimeError", "Failed to load states from Jagriti portal"),
               cache |-> filled, parsed |-> Len(filled)]
         ELSE [exc |-> NoExc, cache |-> filled, parsed |-> Len(filled)]

\* lines 137-146: the commissions of the kept options, in order
RECURSIVE ParseCommissions(_, _)
ParseCommissions(state_id, options) ==
    IF options = <<>> THEN <<>>
    ELSE LET o == Head(options) IN
         (IF OptionKept(o)
          THEN << [id |-> o.value, name |-> Strip(o.text), state_id |-> state_id] >>
          ELSE << >>) \o ParseCommissions(state_id, Tail(options))

\* a faulty check, which lets an empty parse through
EmptyAccepted(commissions) == FALSE

\* lines 148-149: an empty parse is refused
EmptyRefused(commissions) == commissions = <<>>

\* a faulty store, which adds to the list the key already has
CachePutAppend(cache, state_id, commissions) ==
    [k \in DOMAIN cache \cup {state_id} |->
        IF k = state_id
        THEN (IF state_id \in DOMAIN cache THEN cache[state_id] ELSE <<>>) \o commissions
        ELSE cache[k]]

\* a faulty store, which drops the other entries
CachePutAlone(cache, state_id, commissions) ==
    [k \in {state_id} |-> commissions]

\* line 151
CachePut(cache, state_id, commissions) ==
    [k \in DOMAIN cache \cup {state_id} |->
        IF k = state_id THEN commissions ELSE cache[k]]

\* a faulty load, which stores what it parsed before it looks at it
get_commissions_stores_first(cache, state_id, fr, rd, page) ==
    IF fr.mode = "raised"
        THEN [exc |-> fr.exc, list |-> <<>>, cache |-> cache, parsed |-> -1]
    ELSE IF rd = "closed"
        THEN [exc |-> BodyClosed, list |-> <<>>, cache |-> cache, parsed |-> -1]
    ELSE LET commissions == ParseCommissions(state_id, page.options)
             stored == CachePut(cache, state_id, commissions) IN
         IF detect_captcha(page.html)
         THEN [exc |-> Exc("RuntimeError", "Captcha encountered while loading commissions"),
               list |-> <<>>, cache |-> stored, parsed |-> -1]
         ELSE IF EmptyRefused(commissions)
         THEN [exc |-> Exc("RuntimeError", "Failed to load commissions"),
               list |-> <<>>, cache |-> stored, parsed |-> 0]
         ELSE [exc |-> NoExc, list |-> commissions, cache |-> stored,
               parsed |-> Len(commissions)]

\* get_commissions after its request: what it raises, the list it returns and
\* the cache it leaves
get_commissions(cache, state_id, fr, rd, page) ==
    IF fr.mode = "raised"
        THEN [exc |-> fr.exc, list |-> <<>>, cache |-> cache, parsed |-> -1]
    ELSE IF rd = "closed"
        THEN [exc |-> BodyClosed, list |-> <<>>, cache |-> cache, parsed |-> -1]
    ELSE IF detect_captcha(page.html)
        THEN [exc |-> Exc("RuntimeError", "Captcha encountered while loading commissions"),
              list |-> <<>>, cache |-> cache, parsed |-> -1]
    ELSE LET commissions == ParseCommissions(state_id, page.options) IN
         IF EmptyRefused(commissions)
         THEN [exc |-> Exc("RuntimeError", "Failed to load commissions"),
               list |-> <<>>, cache |-> cache, parsed |-> 0]
         ELSE [exc |-> NoExc, list |-> commissions,
               cache |-> CachePut(cache, state_id, commissions),
               parsed |-> Len(commissions)]

\* a faulty lookup, which forgets to upper-case the name
find_state_id_case_sensitive(cache, state_name) ==
    IF \E i \in 1..Len(cache) : cache[i].name = state_name
    THEN cache[CHOOSE i \in 1..Len(cache) : cache[i].name = state_name].id
    ELSE None

\* _find_state_id: the id stored under the upper-cased name, or None
find_state_id(cache, state_name) ==
    LET state_name_upper == Upper(state_name) IN
    IF \E i \in 1..Len(cache) : cache[i].name = state_name_upper
    THEN cache[CHOOSE i \in 1..Len(cache) : cache[i].name = state_name_upper].id
    ELSE None

\* a faulty lookup, which searches the lists of every state
find_commission_id_any_state(cache, state_id, commission_name) ==
    LET target == Lower(Strip(commission_name))
        hits == { c \in UNION { { cache[k][i] : i \in 1..Len(cache[k]) } : k \in DOMAIN cache } :
                    Lower(Strip(c.name)) = target }
    IN IF hits = {} THEN None ELSE (CHOOSE c \in hits : TRUE).id

\* _find_commission_id: the id of the first commission of the state's list
\* whose stripped, lower-cased name is the stripped, lower-cased target
find_commission_id(cache, state_id, commission_name) ==
    IF state_id \notin DOMAIN cache THEN None
    ELSE LET target == Lower(Strip(commission_name))
             list == cache[state_id]
             hits == { i \in 1..Len(list) : Lower(Strip(list[i].name)) = target }
         IN IF hits = {} THEN None
            ELSE list[CHOOSE i \in hits : \A j \in hits : i <= j].id


-----------------------------------------------------------------------------
(* The response parser: dates, links and table rows *)

Digits == <<"0","1","2","3","4","5","6","7","8","9">>

IsDigit(c) == \E i \in 1..Len(Digits) : Digits[i] = c

DigitVal(c) == (CHOOSE i \in 1..Len(Digits) : Digits[i] = c) - 1

\* int(text) of a matched directive: its digits read in base ten (the blank
\* that %d lets stand before one digit counts for nothing)
RECURSIVE NumVal(_)
NumVal(s) ==
    IF s = <<>> THEN 0
    ELSE LET c == s[Len(s)]
             front == NumVal(SubSeq(s, 1, Len(s) - 1))
         IN IF IsDigit(c) THEN front * 10 + DigitVal(c) ELSE front

CharIn(s, i, set) == i <= Len(s) /\ s[i] \in set

\* datetime.strptime turns a format into a regular expression: every
\* directive is an alternation tried in order, every other character stands
\* for itself. The lengths a token of the format can take at position i of s,
\* in the order the alternation tries them:
\*   %d  3[0-1] | [1-2]\d | 0[1-9] | [1-9] | " "[1-9]
\*   %m  1[0-2] | 0[1-9] | [1-9]
\*   %Y  \d\d\d\d
TokenAlts(tok, s, i) ==
    LET NonZero == {"1","2","3","4","5","6","7","8","9"}
        AnyDigit == NonZero \cup {"0"}
    IN CASE tok = "%d" ->
              (IF \/ (CharIn(s, i, {"3"}) /\ CharIn(s, i + 1, {"0","1"}))
                  \/ (CharIn(s, i, {"1","2"}) /\ CharIn(s, i + 1, AnyDigit))
                  \/ (CharIn(s, i, {"0"}) /\ CharIn(s, i + 1, NonZero))
               THEN <<2>> ELSE <<>>)
              \o (IF CharIn(s, i, NonZero) THEN <<1>> ELSE <<>>)
              \o (IF CharIn(s, i, {" "}) /\ CharIn(s, i + 1, NonZero) THEN <<2>> ELSE <<>>)
         [] tok = "%m" ->
              (IF \/ (CharIn(s, i, {"1"}) /\ CharIn(s, i + 1, {"0","1","2"}))
                  \/ (CharIn(s, i, {"0"}) /\ CharIn(s, i + 1, NonZero))
               THEN <<2>> ELSE <<>>)
              \o (IF CharIn(s, i, NonZero) THEN <<1>> ELSE <<>>)
         [] tok = "%Y" ->
              IF \A j \in 0..3 : CharIn(s, i + j, AnyDigit) THEN <<4>> ELSE <<>>
         [] OTHER -> IF CharIn(s, i, {tok}) THEN <<1>> ELSE <<>>

NoMatch == [ok |-> FALSE, end |-> 0, found |-> <<>>]

\* re.match of the format's expression on s from position i, token k on: the
\* first match in backtracking order, with the text each token matched
RECURSIVE MatchFrom(_, _, _, _)
RECURSIVE TryAlts(_, _, _, _, _)
MatchFrom(s, i, fmt, k) ==
    IF k > Len(fmt) THEN [ok |-> TRUE, end |-> i, found |-> <<>>]
    ELSE TryAlts(s, i, fmt, k, TokenAlts(fmt[k], s, i))

TryAlts(s, i, fmt, k, alts) ==
    IF alts = <<>> THEN NoMatch
    ELSE LET n == Head(alts)
             r == MatchFrom(s, i + n, fmt, k + 1)
         IN IF r.ok
            THEN [ok |-> TRUE, end |-> r.end, found |-> <<SubSeq(s, i, i + n - 1)>> \o r.found]
            ELSE TryAlts(s, i, fmt, k, Tail(alts))

IsLeap(y) == y % 4 = 0 /\ (y % 100 # 0 \/ y % 400 = 0)

DaysIn(m, y) ==
    IF m = 2 THEN (IF IsLeap(y) THEN 29 ELSE 28)
    ELSE IF m \in {4, 6, 9, 11} THEN 30 ELSE 31

NoDate == [ok |-> FALSE, y |-> 0, m |-> 0, d |-> 0]

\* datetime.strptime(s, fmt): ValueError (NoDate) when the expression does
\* not match, when text is left over after the match, or when the fields are
\* no date of the calendar (year 0, a day the month does not have)
strptime(s, fmt) ==
    LET r == MatchFrom(s, 1, fmt, 1) IN
    IF ~r.ok \/ r.end # Len(s) + 1 THEN NoDate
    ELSE LET Field(tok) == NumVal(r.found[CHOOSE k \in 1..Len(fmt) : fmt[k] = tok])
             y == Field("%Y")
             m == Field("%m")
             d == Field("%d")
         IN IF y < 1 \/ d > DaysIn(m, y) THEN NoDate
            ELSE [ok |-> TRUE, y |-> y, m |-> m, d |-> d]

\* the decimal digits of n
RECURSIVE NumText(_)
NumText(n) ==
    IF n < 10 THEN <<Digits[n + 1]>>
    ELSE NumText(n \div 10) \o <<Digits[(n % 10) + 1]>>

RECURSIVE ZeroPad(_, _)
ZeroPad(s, width) == IF Len(s) >= width THEN s ELSE ZeroPad(<<"0">> \o s, width)

\* strftime hands %Y to the C library: a year below 1000 comes out padded to
\* four digits on some builds and bare on others (glibc)
YearFormats == {"padded", "bare"}

\* date_obj.strftime('%Y-%m-%d')
strftime(date, year_format) ==
    (IF year_format = "padded" THEN ZeroPad(NumText(date.y), 4) ELSE NumText(date.y))
    \o <<"-">> \o ZeroPad(NumText(date.m), 2)
    \o <<"-">> \o ZeroPad(NumText(date.d), 2)

\* line 383
date_formats ==
    << <<"%d", "/", "%m", "/", "%Y">>,
       <<"%d", "-", "%m", "-", "%Y">>,
       <<"%Y", "-", "%m", "-", "%d">>,
       <<"%d", ".", "%m", ".", "%Y">> >>

\* _normalize_date: the first format that parses the stripped text gives the
\* date, written year-month-day; the stripped text itself when none does
normalize_date(date_str, year_format) ==
    IF date_str = <<>> THEN <<>>
    ELSE LET s == Strip(date_str)
             hits == { k \in 1..Len(date_formats) : strptime(s, date_formats[k]).ok }
         IN IF hits = {} THEN s
            ELSE strftime(strptime(s, date_formats[CHOOSE k \in hits : \A j \in hits : k <= j]),
                          year_format)

StartsWith(s, prefix) == Len(s) >= Len(prefix) /\ SubSeq(s, 1, Len(prefix)) = prefix

\* settings.JAGRITI_BASE_URL
JAGRITI_BASE_URL ==
    <<"h","t","t","p","s",":","/","/","e","-","j","a","g","r","i","t","i",".","g","o","v",".","i","n">>

\* urljoin(base, href) for an href that begins with "/", the base having no
\* path: "//host/..." keeps only the scheme of the base, any other href
\* replaces the path (the hrefs here have no dot segments to remove)
urljoin(base, href) ==
    IF StartsWith(href, <<"/","/">>)
    THEN SubSeq(base, 1, (CHOOSE i \in 1..Len(base) : base[i] = ":" /\ \A j \in 1..(i - 1) : base[j] # ":"))
         \o href
    ELSE base \o href

\* an anchor of a cell: whether it has an href, and the href
Anchor(has_href, href) == [has_href |-> has_href, href |-> href]

\* a faulty extraction, which takes the last anchor of the cell
extract_document_link_last(anchors) ==
    IF anchors = <<>> THEN <<>>
    ELSE LET link == anchors[Len(anchors)] IN
         IF link.has_href /\ link.href # <<>>
         THEN IF StartsWith(link.href, <<"/">>) THEN urljoin(JAGRITI_BASE_URL, link.href)
              ELSE IF StartsWith(link.href, <<"h","t","t","p">>) THEN link.href
              ELSE <<>>
         ELSE <<>>

\* _extract_document_link on a cell with these anchors, in document order:
\* cell.find('a') is the first one
extract_document_link(anchors) ==
    IF anchors = <<>> THEN <<>>
    ELSE LET link == Head(anchors) IN
         IF link.has_href /\ link.href # <<>>
         THEN IF StartsWith(link.href, <<"/">>) THEN urljoin(JAGRITI_BASE_URL, link.href)
              ELSE IF StartsWith(link.href, <<"h","t","t","p">>) THEN link.href
              ELSE <<>>
         ELSE <<>>

\* ' '.join(text.split()): runs of white space become one blank, none is left
\* at either end
RECURSIVE Squeeze(_)
Squeeze(s) ==
    IF Len(s) < 2 THEN s
    ELSE IF IsSpace(s[1]) /\ IsSpace(s[2]) THEN Squeeze(Tail(s))
    ELSE <<Head(s)>> \o Squeeze(Tail(s))

\* _extract_text
extract_text(text) == Strip(Squeeze(text))

\* a faulty test, which wants more than 7 cells
EnoughCellsStrict(row) == row.cells > 7

\* line 326
EnoughCells(row) == row.cells >= 7

\* lines 324-340 for one row: a Case when the row has 7 cells or more and
\* nothing raises inside the try; nothing otherwise
parse_row(row, year_format) ==
    IF EnoughCells(row) /\ ~row.raises
    THEN << [case_number |-> extract_text(row.number),
             filing_date |-> normalize_date(extract_text(row.date), year_format),
             document_link |-> extract_document_link(row.anchors)] >>
    ELSE << >>

RECURSIVE parse_rows(_, _)
parse_rows(rows, year_format) ==
    IF rows = <<>> THEN <<>>
    ELSE parse_row(Head(rows), year_format) \o parse_rows(Tail(rows), year_format)

\* _parse_html_response: the rows of the results table but the first, each
\* parsed on its own, in order; no table, no case
parse_html_response(page, year_format) ==
    IF ~page.table \/ page.trs = <<>> THEN <<>>
    ELSE parse_rows(Tail(page.trs), year_format)

-----------------------------------------------------------------------------
(* The routing layer *)

\* SearchType
SearchTypes ==
    {"case_number", "complainant", "respondent", "complainant_advocate",
     "respondent_advocate", "industry_type", "judge"}

search_field_mapping ==
    [k \in SearchTypes |->
        CASE k = "case_number" -> "case_no"
          [] k = "complainant" -> "complainant_name"
          [] k = "respondent" -> "respondent_name"
          [] k = "complainant_advocate" -> "complainant_advocate"
          [] k = "respondent_advocate" -> "respondent_advocate"
          [] k = "industry_type" -> "industry_type"
          [] OTHER -> "judge_name"]

\* a dict of strings with one key set: a key set anew takes the new value
Bind(d, k, v) == [n \in DOMAIN d \cup {k} |-> IF n = k THEN v ELSE d[n]]

\* dict.update with the pairs of a literal, in its order
RECURSIVE update(_, _)
update(d, pairs) ==
    IF pairs = <<>> THEN d
    ELSE update(Bind(d, Head(pairs)[1], Head(pairs)[2]), Tail(pairs))

\* a faulty test, which lets a later input of a name replace an earlier one
InputKeptAgain(inp, form_data) ==
    /\ inp.name # ""
    /\ Lower(inp.type) \in {TypeHidden, TypeText}

\* lines 268-273: the input has a name, its type is hidden or text whatever
\* the case, and its name is not yet in form_data
InputKept(inp, form_data) ==
    /\ inp.name # ""
    /\ Lower(inp.type) \in {TypeHidden, TypeText}
    /\ inp.name \notin DOMAIN form_data

\* lines 267-274: the loop over the inputs of the form
RECURSIVE collect_inputs(_, _)
collect_inputs(inputs, form_data) ==
    IF inputs = <<>> THEN form_data
    ELSE LET inp == Head(inputs) IN
         collect_inputs(Tail(inputs),
                        IF InputKept(inp, form_data)
                        THEN Bind(form_data, inp.name, inp.value)
                        ELSE form_data)

NoData == [n \in {} |-> ""]

\* lines 264-283: the fields _submit_search_form sends
form_data(form, state_id, commission_id, search_field, search_value) ==
    update(IF form.present THEN collect_inputs(form.inputs, NoData) ELSE NoData,
           << <<"state", state_id>>,
              <<"commission", commission_id>>,
              <<"court_type", "DCDRC">>,
              <<"order_type", "daily_order">>,
              <<"date_filter", "filing_date">>,
              <<search_field, search_value>> >>)

\* the search routes that have an  except RuntimeError  clause: all but
\* search_by_judge
CatchesRuntimeError(route) == route \in SearchTypes \ {"judge"}

\* a faulty route, without its  except ValueError  clause
route_status_no_value_error(route, exc) ==
    IF route \in SearchTypes /\ exc.cls = "RuntimeError" /\ CatchesRuntimeError(route)
    THEN 503
    ELSE 500

\* the status the route answers when the service raises exc
route_status(route, exc) ==
    IF route \in SearchTypes
    THEN IF exc.cls = "ValueError" THEN 400
         ELSE IF exc.cls = "RuntimeError" /\ CatchesRuntimeError(route) THEN 503
         ELSE 500
    ELSE 500

-----------------------------------------------------------------------------
(* What a run does to a page it has read, in the order of the code *)

\* "check": _detect_captcha is called on the text; "soup": BeautifulSoup
\* parses it; "options", "form", "rows": the select options, the form and its
\* inputs, the table rows are looked up in the soup
PageEvent(page, op, html) == [page |-> page, op |-> op, html |-> html]

\* _make_request lines 65-71 and the line after each of its calls: the
\* response is returned from inside  async with , whose exit releases it, and
\* the caller then awaits response.text()
response_events(page, fr) ==
    IF fr.mode = "returned"
    THEN << PageEvent(page, "release", <<>>), PageEvent(page, "text", <<>>) >>
    ELSE <<>>

\* _load_states lines 84-96: the soup is built, then the sentinel is asked
load_states_events(html) ==
    << PageEvent("states", "soup", html), PageEvent("states", "check", html) >>
    \o (IF detect_captcha(html) THEN <<>> ELSE << PageEvent("states", "options", html) >>)

\* get_commissions lines 126-146: the sentinel is asked, then the soup is built
get_commissions_events(html) ==
    << PageEvent("commissions", "check", html) >>
    \o (IF detect_captcha(html) THEN <<>>
        ELSE << PageEvent("commissions", "soup", html),
                PageEvent("commissions", "options", html) >>)

\* _submit_search_form lines 254-274: the soup is built and the form and its
\* inputs are read; the sentinel is not asked
submit_search_form_events(html) ==
    << PageEvent("form", "soup", html), PageEvent("form", "form", html) >>

\* search_cases lines 212-214 and _parse_html_response: the sentinel is asked,
\* and the page is parsed when search_cases did not raise
search_cases_events(html, raised) ==
    << PageEvent("submit", "check", html) >>
    \o (IF raised THEN <<>>
        ELSE << PageEvent("submit", "soup", html), PageEvent("submit", "rows", html) >>)

\* the steps of search_cases, in the order of its lines: 192, 197-200, 205-211,
\* 212, 214 and the return
Stages == << "RESOLVE_STATE", "RESOLVE_COMMISSION", "SUBMIT", "CHALLENGE_CHECK", "PARSE", "DONE" >>

-----------------------------------------------------------------------------
(* The units of work *)

\* Two requests at a time. Either can list states or commissions; searches
\* are served by the first.
Tasks == {"t1", "t2"}
SearchTasks == {"t1"}
Procs == {"main"} \cup Tasks

NoReq == [route |-> "none", state |-> <<>>, commission |-> <<>>, state_id |-> "",
          search_value |-> ""]
\* the locals of a run: state_id and commission_id as search_cases binds them
\* (Unset until bound), the html text last read and the request it came from,
\* the number of options the last load kept (-1: nothing parsed), the verb of
\* the submission, the steps of search_cases the run has entered and what it
\* has done to the pages it read, both in order
Unset == "unset"
NoLoc == [state_id |-> Unset, commission_id |-> Unset, html_from |-> "none",
          html |-> <<>>, parsed |-> -1, verb |-> "", stages |-> <<>>, events |-> <<>>]
NoOut == [status |-> 0, exc |-> NoExc, body |-> <<>>]

\* what the clients send
StateNames == { <<"k","a">>, <<"k">> }
CommissionNames == { <<"b","e"," ">>, <<"G","a">> }
StateIds == {"s1", "s2", "zz"}
SearchValues == {"Reddy"}

Init ==
    /\ session = "none"
    /\ states_cache = <<>>
    /\ commissions_cache = [k \in {} |-> <<>>]
    /\ pc = [p \in Procs |-> IF p = "main" THEN "created" ELSE "idle"]
    /\ req = [p \in Procs |-> NoReq]
    /\ loc = [p \in Procs |-> NoLoc]
    /\ calls = [p \in Procs |-> <<>>]
    /\ out = [p \in Procs |-> NoOut]
    /\ xframe = NewFrame
    /\ xlog = <<>>
    /\ q_in = [op |-> "none", state_id |-> "", name |-> <<>>]
    /\ q_out = None

\* the unit of work p moves on
Move(p, newpc, newreq, newloc, newcalls, newout) ==
    /\ pc' = [pc EXCEPT ![p] = newpc]
    /\ req' = [req EXCEPT ![p] = newreq]
    /\ loc' = [loc EXCEPT ![p] = newloc]
    /\ calls' = [calls EXCEPT ![p] = newcalls]
    /\ out' = [out EXCEPT ![p] = newout]

\* the service raised exc and the route answers
Answered(r, exc) == [status |-> route_status(r.route, exc), exc |-> exc, body |-> <<>>]

Returned(body) == [status |-> 200, exc |-> NoExc, body |-> body]

\* lifespan startup, initialize: the session is created and _load_states
\* sends its request
Initialize ==
    /\ pc["main"] = "created"
    /\ session' = "open"
    /\ Move("main", "ls_wait", [NoReq EXCEPT !.route = "startup"], NoLoc,
            << [what |-> "states", verb |-> "GET", data |-> NoData] >>, NoOut)
    /\ UNCHANGED <<states_cache, commissions_cache, execVars, resVars>>

\* _load_states from the end of its request on: the app serves when it raised
\* nothing; otherwise the lifespan fails before its yield
LoadStatesDone ==
    /\ pc["main"] = "ls_wait"
    /\ \E fr \in CallResults, rd \in BodyReads, page \in StatesPages :
        LET r == load_states(states_cache, fr, rd, page)
            read == fr.mode = "returned" /\ rd = "text"
            l == [loc["main"] EXCEPT !.html_from = IF read THEN "states" ELSE "none",
                                     !.html = IF read THEN page.html ELSE <<>>,
                                     !.parsed = r.parsed,
                                     !.events = @ \o response_events("states", fr)
                                  \o (IF read THEN load_states_events(page.html) ELSE <<>>)]
        IN /\ states_cache' = r.cache
           /\ Move("main", IF r.exc = NoExc THEN "serving" ELSE "failed",
                   req["main"], l, calls["main"],
                   [status |-> 0, exc |-> r.exc, body |-> <<>>])
    /\ UNCHANGED <<session, commissions_cache, execVars, resVars>>

\* lifespan shutdown, cleanup
Shutdown ==
    /\ pc["main"] = "serving"
    /\ \A t \in Tasks : pc[t] = "idle"
    /\ session' = IF session = "open" THEN "closed" ELSE session
    /\ pc' = [pc EXCEPT !["main"] = "stopped"]
    /\ UNCHANGED <<states_cache, commissions_cache, req, loc, calls, out, execVars, resVars>>

\* a faulty gate, which lets a request in whatever the lifespan has done
ServingEarly(t) == pc[t] = "idle"

Serving(t) == pc["main"] = "serving" /\ pc[t] = "idle"

\* GET /states
GetStates(t) ==
    /\ Serving(t)
    /\ Move(t, "done", [NoReq EXCEPT !.route = "states"], NoLoc, <<>>,
            Returned(states_cache))
    /\ UNCHANGED <<session, states_cache, commissions_cache, execVars, resVars>>

\* GET /commissions/{state_id}: get_commissions up to its request
GetCommissionsStart(t) ==
    /\ Serving(t)
    /\ \E state_id \in StateIds :
        LET r == [NoReq EXCEPT !.route = "commissions", !.state_id = state_id] IN
        IF state_id \in DOMAIN commissions_cache
        THEN Move(t, "done", r, NoLoc, <<>>, Returned(commissions_cache[state_id]))
        ELSE Move(t, "gc_wait", r, [NoLoc EXCEPT !.state_id = state_id],
                  << [what |-> "commissions", verb |-> "GET", data |-> NoData] >>, NoOut)
    /\ UNCHANGED <<session, states_cache, commissions_cache, execVars, resVars>>

\* get_commissions from the end of its request on
GetCommissionsDone(t) ==
    /\ pc[t] = "gc_wait"
    /\ req[t].route = "commissions"
    /\ \E fr \in CallResults, rd \in BodyReads, page \in CommissionsPages(req[t].state_id) :
        LET r == get_commissions(commissions_cache, req[t].state_id, fr, rd, page)
            read == fr.mode = "returned" /\ rd = "text"
            l == [loc[t] EXCEPT !.html_from = IF read THEN "commissions" ELSE "none",
                                !.html = IF read THEN page.html ELSE <<>>,
                                !.parsed = r.parsed,
                                !.events = @ \o response_events("commissions", fr)
                                  \o (IF read THEN get_commissions_events(page.html) ELSE <<>>)]
        IN /\ commissions_cache' = r.cache
           /\ Move(t, "done", req[t], l, calls[t],
                   IF r.exc = NoExc THEN Returned(r.list) ELSE Answered(req[t], r.exc))
    /\ UNCHANGED <<session, states_cache, execVars, resVars>>

\* search_cases lines 200-211 and _submit_search_form up to its first
\* request: the commission is resolved in the cache as it now is
ResolveCommission(t, r, l, cs, cache) ==
    LET commission_id == find_commission_id(cache, l.state_id, r.commission)
        bound == [l EXCEPT !.commission_id = commission_id]
    IN IF commission_id = None \/ commission_id = ""
       THEN Move(t, "done", r, bound, cs,
                 Answered(r, Exc("ValueError", "Commission not found")))
       ELSE Move(t, "form_wait", r, [bound EXCEPT !.stages = Append(@, "SUBMIT")],
                 Append(cs, [what |-> "form", verb |-> "GET", data |-> NoData]), NoOut)

\* a faulty test, which finds nothing cached
CommissionsNeverCached(cache, state_id) == FALSE

\* lines 197 and 118: state_id in self.commissions_cache
CommissionsCached(cache, state_id) == state_id \in DOMAIN cache

\* POST /cases/by-...: search_cases up to its first request
SearchStart(t) ==
    /\ Serving(t)
    /\ \E search_type \in SearchTypes, state \in StateNames, commission \in CommissionNames,
          search_value \in SearchValues :
        LET r == [NoReq EXCEPT !.route = search_type, !.state = state,
                               !.commission = commission, !.search_value = search_value]
            state_id == find_state_id(states_cache, state)
            l == [NoLoc EXCEPT !.state_id = state_id, !.stages = << "RESOLVE_STATE" >>]
            found == [l EXCEPT !.stages = Append(@, "RESOLVE_COMMISSION")]
        IN IF state_id = None \/ state_id = ""
           THEN Move(t, "done", r, l, <<>>, Answered(r, Exc("ValueError", "State not found")))
           ELSE IF ~CommissionsCached(commissions_cache, state_id)
           THEN Move(t, "gc_wait", r, found, << [what |-> "commissions", verb |-> "GET", data |-> NoData] >>,
                     NoOut)
           ELSE ResolveCommission(t, r, found, <<>>, commissions_cache)
    /\ UNCHANGED <<session, states_cache, commissions_cache, execVars, resVars>>

\* search_cases from the end of get_commissions' request on
SearchCommissionsDone(t) ==
    /\ pc[t] = "gc_wait"
    /\ req[t].route \in SearchTypes
    /\ \E fr \in CallResults, rd \in BodyReads, page \in CommissionsPages(loc[t].state_id) :
        LET r == get_commissions(commissions_cache, loc[t].state_id, fr, rd, page)
            read == fr.mode = "returned" /\ rd = "text"
            l == [loc[t] EXCEPT !.html_from = IF read THEN "commissions" ELSE "none",
                                !.html = IF read THEN page.html ELSE <<>>,
                                !.parsed = r.parsed,
                                !.events = @ \o response_events("commissions", fr)
                                  \o (IF read THEN get_commissions_events(page.html) ELSE <<>>)]
        IN /\ commissions_cache' = r.cache
           /\ IF r.exc # NoExc
              THEN Move(t, "done", req[t], l, calls[t], Answered(req[t], r.exc))
              ELSE ResolveCommission(t, req[t], l, calls[t], r.cache)
    /\ UNCHANGED <<session, states_cache, execVars, resVars>>

\* lines 256-263: the method of the first form, POST when there is none
FormMethod(form) ==
    IF form.present /\ form.method # <<>> THEN Upper(form.method)
    ELSE <<"P","O","S","T">>

\* lines 285-288: GET sends the fields as a query, any other method as a body
SubmitVerb(method) == IF method = <<"G","E","T">> THEN "GET" ELSE "POST"

\* _submit_search_form from the end of its first request to its second: the
\* form page is read and the form is sent
SearchFormDone(t) ==
    /\ pc[t] = "form_wait"
    /\ \E fr \in CallResults, rd \in BodyReads, page \in FormPages :
        LET read == fr.mode = "returned" /\ rd = "text"
            l == [loc[t] EXCEPT !.html_from = IF read THEN "form" ELSE "none",
                                !.html = IF read THEN page.html ELSE <<>>,
                                !.events = @ \o response_events("form", fr)
                                  \o (IF read THEN submit_search_form_events(page.html) ELSE <<>>)]
            verb == SubmitVerb(FormMethod(page.form))
            data == form_data(page.form, loc[t].state_id, loc[t].commission_id,
                              search_field_mapping[req[t].route], req[t].search_value)
        IN IF fr.mode = "raised"
           THEN Move(t, "done", req[t], l, calls[t], Answered(req[t], fr.exc))
           ELSE IF rd = "closed"
           THEN Move(t, "done", req[t], l, calls[t], Answered(req[t], BodyClosed))
           ELSE Move(t, "submit_wait", req[t], [l EXCEPT !.verb = verb],
                     Append(calls[t], [what |-> "submit", verb |-> verb, data |-> data]), NoOut)
    /\ UNCHANGED <<session, states_cache, commissions_cache, execVars, resVars>>

\* a faulty search, which parses the page whatever the sentinel says
search_result_unchecked(html, page, year_format) ==
    [exc |-> NoExc, body |-> parse_html_response(page, year_format)]

\* search_cases lines 212-214: the sentinel decides between raising and parsing
search_result(html, page, year_format) ==
    IF detect_captcha(html)
    THEN [exc |-> Exc("RuntimeError", "Captcha encountered during search"), body |-> <<>>]
    ELSE [exc |-> NoExc, body |-> parse_html_response(page, year_format)]

\* search_cases from the end of the submission on
SearchSubmitDone(t) ==
    /\ pc[t] = "submit_wait"
    /\ \E fr \in CallResults, rd \in BodyReads, page \in ResultPages,
          year_format \in YearFormats :
        LET read == fr.mode = "returned" /\ rd = "text"
            r == search_result(page.html, page, year_format)
            raised == r.exc # NoExc
            l == [loc[t] EXCEPT
                    !.html_from = IF read THEN "submit" ELSE "none",
                    !.html = IF read THEN page.html ELSE <<>>,
                    !.events = @ \o response_events("submit", fr)
                                  \o (IF read THEN search_cases_events(page.html, raised) ELSE <<>>),
                    !.stages = IF ~read THEN @
                               ELSE IF raised THEN Append(@, "CHALLENGE_CHECK")
                               ELSE @ \o << "CHALLENGE_CHECK", "PARSE", "DONE" >>]
        IN IF fr.mode = "raised"
           THEN Move(t, "done", req[t], l, calls[t], Answered(req[t], fr.exc))
           ELSE IF rd = "closed"
           THEN Move(t, "done", req[t], l, calls[t], Answered(req[t], BodyClosed))
           ELSE IF r.exc # NoExc
           THEN Move(t, "done", req[t], l, calls[t], Answered(req[t], r.exc))
           ELSE Move(t, "done", req[t], l, calls[t], Returned(r.body))
    /\ UNCHANGED <<session, states_cache, commissions_cache, execVars, resVars>>

\* the response is sent and the unit of work is over
TaskEnd(t) ==
    /\ pc[t] = "done"
    /\ Move(t, "idle", NoReq, NoLoc, <<>>, NoOut)
    /\ UNCHANGED <<session, states_cache, commissions_cache, execVars, resVars>>

Next ==
    \/ Initialize
    \/ LoadStatesDone
    \/ Shutdown
    \/ \E t \in Tasks : GetStates(t)
    \/ \E t \in Tasks : GetCommissionsStart(t)
    \/ \E t \in Tasks : GetCommissionsDone(t)
    \/ \E t \in SearchTasks : SearchStart(t)
    \/ \E t \in SearchTasks : SearchCommissionsDone(t)
    \/ \E t \in SearchTasks : SearchFormDone(t)
    \/ \E t \in SearchTasks : SearchSubmitDone(t)
    \/ \E t \in Tasks : TaskEnd(t)

Spec == Init /\ [][Next]_vars


-----------------------------------------------------------------------------
(* One _make_request call on its own *)

NextExec ==
    \/ XAttempt
    \/ XWake

SpecExec == Init /\ [][NextExec]_vars

\* the event loop runs the call on: an attempt ends, at the latest when its
\* total timeout expires, and a sleep ends
SpecExecFair == SpecExec /\ WF_vars(XAttempt) /\ WF_vars(XWake)

-----------------------------------------------------------------------------
(* The service object called directly, from its construction on: get_states  *)
(* does not wait for initialize                                              *)

\* get_states: list(self.states_cache.values()), whatever the cache holds
get_states(cache) == cache

\* a caller awaits get_states() on the service object
DirectGetStates(t) ==
    /\ pc[t] = "idle"
    /\ Move(t, "done", [NoReq EXCEPT !.route = "states"], NoLoc, <<>>,
            Returned(get_states(states_cache)))
    /\ UNCHANGED <<session, states_cache, commissions_cache, execVars, resVars>>

NextDirect ==
    \/ Initialize
    \/ LoadStatesDone
    \/ \E t \in Tasks : DirectGetStates(t)
    \/ \E t \in Tasks : GetCommissionsStart(t)
    \/ \E t \in Tasks : GetCommissionsDone(t)
    \/ \E t \in Tasks : TaskEnd(t)

SpecDirect == Init /\ [][NextDirect]_vars

-----------------------------------------------------------------------------
(* Name resolution on its own: the caches as the loads can leave them, and   *)
(* every name up to a length                                                 *)

MaxNameLen == 3

Texts(alphabet, n) == UNION { [1..k -> alphabet] : k \in 0..n }

QueryStateNames == Texts({"k", "K", "a", " "}, MaxNameLen)
QueryCommissionNames == Texts({"b", "E", "e", " ", "G", "a"}, MaxNameLen)

ResponseReturned == [mode |-> "returned", exc |-> NoExc]

\* the states caches a successful _load_states leaves
LoadedStates ==
    { r.cache : r \in { x \in { load_states(<<>>, ResponseReturned, "text", page) :
                                    page \in StatesPages } : x.exc = NoExc } }

\* the commission lists a successful get_commissions stores for a state
LoadedLists(state_id) ==
    { ParseCommissions(state_id, page.options) :
        page \in { pg \in CommissionsPages(state_id) :
                     get_commissions(<<>>, state_id, ResponseReturned, "text", pg).exc = NoExc } }

LoadableIds == { k \in StateIds : LoadedLists(k) # {} }

RECURSIVE PutAll(_, _, _)
PutAll(cache, ids, pick) ==
    IF ids = {} THEN cache
    ELSE LET k == CHOOSE x \in ids : TRUE IN
         PutAll(CachePut(cache, k, pick[k]), ids \ {k}, pick)

\* the commissions caches the loads can leave: for any loaded states, one of
\* the lists the portal can answer with, written by line 151
LoadedCaches ==
    UNION { { PutAll([k \in {} |-> <<>>], ids, pick) :
                pick \in [ids -> UNION { LoadedLists(k) : k \in ids }] }
            : ids \in SUBSET LoadableIds }

NoQuery == [op |-> "none", state_id |-> "", name |-> <<>>]

InitResolve ==
    /\ session = "open"
    /\ states_cache \in LoadedStates
    /\ commissions_cache \in
          { c \in LoadedCaches : \A k \in DOMAIN c : c[k] \in LoadedLists(k) }
    /\ pc = [p \in Procs |-> IF p = "main" THEN "serving" ELSE "idle"]
    /\ req = [p \in Procs |-> NoReq]
    /\ loc = [p \in Procs |-> NoLoc]
    /\ calls = [p \in Procs |-> <<>>]
    /\ out = [p \in Procs |-> NoOut]
    /\ xframe = NewFrame
    /\ xlog = <<>>
    /\ q_in = NoQuery
    /\ q_out = None

\* one resolution per behaviour: a name is picked and resolved
ResolveState ==
    /\ q_in.op = "none"
    /\ \E name \in QueryStateNames :
        /\ q_in' = [op |-> "state", state_id |-> "", name |-> name]
        /\ q_out' = find_state_id(states_cache, name)
    /\ UNCHANGED <<svcVars, execVars>>

ResolveCommissionName ==
    /\ q_in.op = "none"
    /\ \E state_id \in StateIds, name \in QueryCommissionNames :
        /\ q_in' = [op |-> "commission", state_id |-> state_id, name |-> name]
        /\ q_out' = find_commission_id(commissions_cache, state_id, name)
    /\ UNCHANGED <<svcVars, execVars>>

NextResolve ==
    \/ ResolveState
    \/ ResolveCommissionName

SpecResolve == InitResolve /\ [][NextResolve]_vars


-----------------------------------------------------------------------------
(* The parser and the sentinel on their own: one text, cell or table each    *)

MaxRows == 6

\* the texts a filing-date cell can hold: days, months and years, well formed
\* and not, in either order, with each separator, bare or padded with blanks
DayTexts == { <<"0","1">>, <<"1">>, <<"2","9">>, <<"3","1">>, <<"0","0">> }
MonthTexts == { <<"0","2">>, <<"2">>, <<"1","2">>, <<"1","3">> }
YearTexts == { <<"2","0","2","5">>, <<"2","0","2","4">>, <<"0","9","9","9">>, <<"2","5">> }
Separators == { "/", "-", ".", ":" }
Pads == { <<>>, <<" ">> }

OtherTexts ==
    { <<>>, <<" ">>, <<"N","/","A">>, <<" ","N","/","A"," ">>,
      <<"0","1","/","0","2","-","2","0","2","5">>,
      <<"2","0","2","5","-","0","2","-","0","1","x">>,
      <<"2","0","2","5","-","0","2","-"," ","1">>,
      <<"0","0","0","0","-","0","1","-","0","1">> }

DateTexts ==
    { l \o a \o <<sep>> \o b \o <<sep>> \o c \o r :
        l \in Pads, r \in Pads, sep \in Separators,
        a \in DayTexts \cup YearTexts, b \in MonthTexts, c \in DayTexts \cup YearTexts }
    \cup OtherTexts

\* the anchors a first cell can hold
AnchorKinds ==
    { Anchor(FALSE, <<>>), Anchor(TRUE, <<>>),
      Anchor(TRUE, <<"/","c">>),
      Anchor(TRUE, <<"h","t","t","p",":","/","/","h","/","c">>),
      Anchor(TRUE, <<"h","t","t","p","s",":","/","/","h">>),
      Anchor(TRUE, <<"f","t","p",":","/","/","h","/","c">>),
      Anchor(TRUE, <<"c",".","p","d","f">>),
      Anchor(TRUE, <<"#">>) }

CellAnchors == UNION { [1..n -> AnchorKinds] : n \in 0..2 }

\* the rows a results table can hold after its header
RowKinds ==
    { Row(7, FALSE, <<"A">>, <<"0","1","/","0","2","/","2","0","2","5">>,
          << Anchor(TRUE, <<"/","a">>) >>),
      Row(8, FALSE, <<"B"," "," ","b">>, <<"N","/","A">>, <<>>),
      Row(3, FALSE, <<"S">>, <<"0","1","/","0","2","/","2","0","2","5">>,
          << Anchor(TRUE, <<"/","s">>) >>),
      Row(7, TRUE, <<"T">>, <<"0","9","9","9","-","0","1","-","0","1">>,
          << Anchor(TRUE, <<"/","t">>) >>) }

TablePages ==
    { [html |-> PlainHtml, table |-> FALSE, trs |-> <<>>],
      [html |-> PlainHtml, table |-> TRUE, trs |-> <<>>] }
    \cup { [html |-> PlainHtml, table |-> TRUE, trs |-> <<HeaderRow>> \o rows] :
             rows \in UNION { [1..n -> RowKinds] : n \in 0..MaxRows } }

\* the html texts the sentinel is given: each marker and near misses of it,
\* in lower, upper and mixed case, alone and inside a page
MarkerTexts ==
    markers
    \cup { Upper(m) : m \in markers }
    \cup { [i \in 1..Len(m) |-> IF i % 2 = 1 THEN UpperChar(m[i]) ELSE m[i]] : m \in markers }
    \cup { SubSeq(m, 1, Len(m) - 1) : m \in markers }
    \cup { Tail(m) : m \in markers }
    \cup { [i \in 1..Len(m) |-> IF i = 3 THEN "_" ELSE m[i]] : m \in markers }

Htmls ==
    { l \o core \o r :
        l \in { <<>>, <<"<","p",">">> }, r \in { <<>>, <<"<","/","p",">">> },
        core \in MarkerTexts \cup { <<>>, PlainHtml, <<" ">> } }

MaxInputs == 3

\* the inputs a form can hold: a name twice with two values and with a type
\* that is not kept, names of the fixed fields and of search fields, a type in
\* capitals, an input without a name and one without a type
InputKinds ==
    { Input("tok", TypeHidden, "v1"),
      Input("tok", Upper(TypeHidden), "v2"),
      Input("tok", TypeSubmit, "v3"),
      Input("state", TypeText, "zz"),
      Input("case_no", TypeText, "old"),
      Input("judge_name", TypeText, ""),
      Input("", TypeHidden, "y"),
      Input("q", <<>>, "w") }

Forms ==
    { [present |-> FALSE, method |-> <<>>, inputs |-> <<>>] }
    \cup { [present |-> TRUE, method |-> <<>>, inputs |-> inputs] :
             inputs \in UNION { [1..n -> InputKinds] : n \in 0..MaxInputs } }

Query(op, arg) == [op |-> op, state_id |-> "", name |-> arg]

\* _normalize_date on a text, and on its own result, in one build
NormalizeDate ==
    /\ q_in.op = "none"
    /\ \E date_str \in DateTexts, year_format \in YearFormats :
        /\ q_in' = Query("normalize_date", date_str)
        /\ q_out' = [year_format |-> year_format,
                     once |-> normalize_date(date_str, year_format),
                     twice |-> normalize_date(normalize_date(date_str, year_format),
                                              year_format)]
    /\ UNCHANGED <<svcVars, execVars>>

\* _extract_document_link on a cell
ExtractDocumentLink ==
    /\ q_in.op = "none"
    /\ \E anchors \in CellAnchors :
        /\ q_in' = Query("extract_document_link", anchors)
        /\ q_out' = extract_document_link(anchors)
    /\ UNCHANGED <<svcVars, execVars>>

\* _parse_html_response on a page
ParseHtmlResponse ==
    /\ q_in.op = "none"
    /\ \E page \in TablePages, year_format \in YearFormats :
        /\ q_in' = Query("parse_html_response", page)
        /\ q_out' = [year_format |-> year_format,
                     cases |-> parse_html_response(page, year_format)]
    /\ UNCHANGED <<svcVars, execVars>>

\* _detect_captcha on a text
DetectCaptcha ==
    /\ q_in.op = "none"
    /\ \E html \in Htmls :
        /\ q_in' = Query("detect_captcha", html)
        /\ q_out' = detect_captcha(html)
    /\ UNCHANGED <<svcVars, execVars>>

\* the fields of a submission, for a form, a search kind and a search value
FormData ==
    /\ q_in.op = "none"
    /\ \E form \in Forms, search_type \in SearchTypes, search_value \in {"Reddy", ""} :
        /\ q_in' = Query("form_data",
                         [form |-> form, search_type |-> search_type,
                          state_id |-> "s1", commission_id |-> "c1",
                          search_value |-> search_value])
        /\ q_out' = form_data(form, "s1", "c1", search_field_mapping[search_type],
                              search_value)
    /\ UNCHANGED <<svcVars, execVars>>

NextParse ==
    \/ FormData
    \/ NormalizeDate
    \/ ExtractDocumentLink
    \/ ParseHtmlResponse
    \/ DetectCaptcha

SpecParse == Init /\ [][NextParse]_vars

-----------------------------------------------------------------------------
(* Claims *)

SearchDone(t) == pc[t] = "done" /\ req[t].route \in SearchTypes

\* the sentinel flagged a page this run read and checked
ChallengeDetected(t) ==
    /\ loc[t].html_from \in {"states", "commissions", "submit"}
    /\ detect_captcha(loc[t].html)

\* a name of the request did not resolve: search_cases bound None to state_id
\* or to commission_id
NameUnresolved(t) == loc[t].state_id = None \/ loc[t].commission_id = None

\* C1: for each of the seven search kinds, a search whose submission response
\* the sentinel flags is answered 503.
C1_ChallengedSearchIs503 ==
    \A t \in SearchTasks :
        (SearchDone(t) /\ loc[t].html_from = "submit" /\ detect_captcha(loc[t].html))
            => out[t].status = 503

\* C2: a search whose state name or commission name does not resolve is
\* answered 400, and its run has issued neither the form-page fetch nor the
\* form submission.
C2_UnresolvedNameIs400 ==
    \A t \in SearchTasks :
        (SearchDone(t) /\ NameUnresolved(t))
            => /\ out[t].status = 400
               /\ \A i \in 1..Len(calls[t]) : calls[t][i].what \notin {"form", "submit"}

C2_Witness ==
    \E t \in SearchTasks :
        /\ SearchDone(t)
        /\ loc[t].state_id = "s1"
        /\ loc[t].commission_id = None
        /\ "s2" \in DOMAIN commissions_cache
        /\ find_commission_id(commissions_cache, "s2", req[t].commission) # None
        /\ out[t].status = 400

\* C3: a search is answered 503 only when the sentinel flagged a page, and any
\* other failure that is not an unresolved name is answered 500.
C3_OnlyChallengeIs503 ==
    \A t \in SearchTasks :
        SearchDone(t) =>
            /\ out[t].status = 503 => ChallengeDetected(t)
            /\ (out[t].status # 200 /\ ~NameUnresolved(t) /\ ~ChallengeDetected(t))
                    => out[t].status = 500

XAttempts == LET IsAttempt(e) == e.ev = "attempt" IN SelectSeq(xlog, IsAttempt)

TransportFailed(e) == e.outcome.kind = "exc"

\* C4: for k <= MAX_RETRIES, when attempts 1..k-1 fail with a transport error
\* the call goes on to attempt k, and when attempt k then gets status 200 the
\* call returns the response of attempt k after exactly k attempts.
C4_RetryThenSuccess ==
    LET A == XAttempts IN
    \A k \in 1..MAX_RETRIES :
        (Len(A) >= k - 1 /\ \A i \in 1..(k - 1) : TransportFailed(A[i])) =>
            /\ Len(A) = k - 1 => xframe.mode \in {"request", "sleep"}
            /\ (Len(A) >= k /\ A[k].outcome = Status(200)) =>
                    /\ xframe.mode = "returned"
                    /\ xframe.response = k
                    /\ Len(A) = k

C4_Witness ==
    LET A == XAttempts IN
    /\ Len(A) = MAX_RETRIES
    /\ \A i \in 1..(MAX_RETRIES - 1) : A[i].outcome = Failure("TimeoutError")
    /\ A[MAX_RETRIES].outcome = Status(200)
    /\ xframe.mode = "returned"
    /\ xframe.response = MAX_RETRIES

\* C5: an attempt that gets an error status other than 429 is the last event
\* of the call, which raises: no sleep and no attempt follows it.
C5_OtherStatusRaisesAtOnce ==
    \A i \in 1..Len(xlog) :
        (/\ xlog[i].ev = "attempt"
         /\ xlog[i].outcome.kind = "status"
         /\ xlog[i].outcome.code >= 400
         /\ xlog[i].outcome.code # 429)
            => (i = Len(xlog) /\ xframe.mode = "raised")

\* C6: a call whose MAX_RETRIES attempts all failed with a transport error or
\* status 429 ends by raising an exception of the transport's kind.
C6_ExhaustionRaisesTransportError ==
    LET A == XAttempts IN
    (/\ Len(A) = MAX_RETRIES
     /\ \A i \in 1..Len(A) : TransportFailed(A[i]) \/ A[i].outcome = Status(429)
     /\ xframe.mode \notin {"request", "sleep"})
        => (xframe.mode = "raised" /\ xframe.exc.cls \in TransportClasses)

\* the same letter, in either case
SameLetter(c, d) ==
    c = d \/ \E i \in 1..Len(Lowers) : {c, d} = {Lowers[i], Uppers[i]}

EqIgnoreCase(a, b) ==
    Len(a) = Len(b) /\ \A i \in 1..Len(a) : SameLetter(a[i], b[i])

\* C7: resolving a state name gives the id of the cached state whose name is
\* the name up to letter case, and None when there is none (a prefix of a
\* cached name included); names that differ only in case resolve alike.
C7_StateExactIgnoringCase ==
    q_in.op = "state" =>
        /\ \A i \in 1..Len(states_cache) :
                EqIgnoreCase(states_cache[i].name, q_in.name) => q_out = states_cache[i].id
        /\ (\A i \in 1..Len(states_cache) : ~EqIgnoreCase(states_cache[i].name, q_in.name))
                => q_out = None
        /\ \A other \in QueryStateNames :
                EqIgnoreCase(other, q_in.name) => find_state_id(states_cache, other) = q_out

C7_Witness ==
    /\ q_in.op = "state"
    /\ q_out # None
    /\ \A i \in 1..Len(states_cache) : states_cache[i].name # q_in.name

\* C8: resolving a commission name for a state gives None or the id of a
\* commission of that state's cache entry whose trimmed name is the trimmed
\* name up to letter case, never one cached under another state only; and
\* every commission stored under a state id carries that state id.
C8_CommissionStateScoped ==
    /\ \A k \in DOMAIN commissions_cache :
            \A i \in 1..Len(commissions_cache[k]) : commissions_cache[k][i].state_id = k
    /\ (q_in.op = "commission" /\ q_out # None) =>
            /\ q_in.state_id \in DOMAIN commissions_cache
            /\ \E i \in 1..Len(commissions_cache[q_in.state_id]) :
                    LET c == commissions_cache[q_in.state_id][i] IN
                    /\ c.id = q_out
                    /\ EqIgnoreCase(Strip(c.name), Strip(q_in.name))

C8_Witness ==
    /\ q_in.op = "commission"
    /\ q_out = None
    /\ q_in.state_id \in DOMAIN commissions_cache
    /\ \E k \in DOMAIN commissions_cache \ {q_in.state_id} :
            \E i \in 1..Len(commissions_cache[k]) :
                EqIgnoreCase(Strip(commissions_cache[k][i].name), Strip(q_in.name))

\* C9: no step removes a key of the states cache or of the commissions cache.
C9_CacheKeysOnlyGrow ==
    [][ /\ StateKeys(states_cache) \subseteq StateKeys(states_cache')
        /\ DOMAIN commissions_cache \subseteq DOMAIN commissions_cache' ]_vars

C9_Witness ==
    /\ StateKeys(states_cache) # {}
    /\ DOMAIN commissions_cache = {"s1", "s2"}
    /\ \E t \in Tasks : pc[t] = "done" /\ out[t].status = 500

\* C10: a load that keeps no option fails instead of returning or caching an
\* empty list: no commissions-cache entry is empty, the states cache is not
\* empty once the app serves, and no load answers 200 with an empty list.
C10_NoEmptyLoad ==
    /\ \A k \in DOMAIN commissions_cache : commissions_cache[k] # <<>>
    /\ pc["main"] \in {"serving", "stopped"} => states_cache # <<>>
    /\ \A p \in Procs :
            (loc[p].html_from \in {"states", "commissions"} /\ loc[p].parsed = 0)
                => (out[p].exc.cls = "RuntimeError" /\ out[p].status # 200)
    /\ \A t \in Tasks :
            (pc[t] = "done" /\ req[t].route = "commissions" /\ out[t].status = 200)
                => out[t].body # <<>>

C10_Witness ==
    /\ pc["main"] = "serving"
    /\ \E t \in Tasks :
        /\ pc[t] = "done"
        /\ loc[t].html_from = "commissions"
        /\ loc[t].parsed = 0
        /\ req[t].state_id \notin DOMAIN commissions_cache

\* C11: get_states called while the states cache is empty fetches the entry
\* page, and answers with a list that is not empty or fails: it never returns
\* an empty list.
C11_ListStatesNeverEmpty ==
    \A t \in Tasks :
        (pc[t] = "done" /\ req[t].route = "states")
            => /\ out[t].status = 200 => out[t].body # <<>>
               /\ (out[t].body = <<>> /\ out[t].status = 200)
                    => \E i \in 1..Len(calls[t]) : calls[t][i].what = "states"

\* the rows of a page that _parse_html_response goes through: all but the
\* first of the table
DataRows(page) == IF page.table /\ page.trs # <<>> THEN Tail(page.trs) ELSE <<>>

WellFormed(row) == row.cells >= 7 /\ ~row.raises

\* the index of the j-th well-formed row among rows
NthWellFormed(rows, j) ==
    CHOOSE i \in 1..Len(rows) :
        /\ WellFormed(rows[i])
        /\ Cardinality({ k \in 1..i : WellFormed(rows[k]) }) = j

\* C12: parsing a results table gives, in row order, exactly one record for
\* each row after the header that has at least 7 cells and whose extraction
\* raises nothing; a row with fewer cells or whose extraction raises is
\* skipped and no other row is lost with it.
C12_OneRecordPerWellFormedRow ==
    q_in.op = "parse_html_response" =>
        LET rows == DataRows(q_in.name)
            cases == q_out.cases
        IN /\ Len(cases) = Cardinality({ i \in 1..Len(rows) : WellFormed(rows[i]) })
           /\ \A j \in 1..Len(cases) :
                cases[j].case_number = extract_text(rows[NthWellFormed(rows, j)].number)

C12_Witness ==
    /\ q_in.op = "parse_html_response"
    /\ LET rows == DataRows(q_in.name) IN
        /\ Len(rows) = 6
        /\ Cardinality({ i \in 1..Len(rows) : WellFormed(rows[i]) }) = 5
        /\ ~WellFormed(rows[3])
        /\ \E i \in 1..Len(rows) : rows[i].cells = 7 /\ WellFormed(rows[i])
    /\ Len(q_out.cases) = 5

\* a text of the shape YYYY-MM-DD that names a day of the calendar
IsIsoDate(s) ==
    /\ Len(s) = 10
    /\ s[5] = "-" /\ s[8] = "-"
    /\ \A i \in {1, 2, 3, 4, 6, 7, 9, 10} : IsDigit(s[i])
    /\ LET y == NumVal(SubSeq(s, 1, 4))
           m == NumVal(SubSeq(s, 6, 7))
           d == NumVal(SubSeq(s, 9, 10))
       IN y >= 1 /\ m \in 1..12 /\ d \in 1..DaysIn(m, y)

\* the stripped text is a day, a month and a year of the calendar around one
\* of the separators '/', '-' and '.'
IsDayMonthYear(s) == \E k \in {1, 2, 4} : strptime(Strip(s), date_formats[k]).ok

MatchesNoPattern(s) == \A k \in 1..Len(date_formats) : ~strptime(Strip(s), date_formats[k]).ok

\* normalising a normalised date changes nothing
NormalizeIdempotent == q_in.op = "normalize_date" => q_out.twice = q_out.once

\* C13: normalising a filing date twice gives what normalising it once gives;
\* a day/month/year text becomes a YYYY-MM-DD date, a YYYY-MM-DD date stays as
\* it is, and a text that matches no pattern comes back stripped.
C13_NormalizeDate ==
    q_in.op = "normalize_date" =>
        /\ q_out.twice = q_out.once
        /\ IsDayMonthYear(q_in.name) => IsIsoDate(q_out.once)
        /\ IsIsoDate(q_in.name) => q_out.once = q_in.name
        /\ MatchesNoPattern(q_in.name) => q_out.once = Strip(q_in.name)

\* letters, then "://"
IsAbsoluteUrl(href) ==
    \E i \in 2..(Len(href) - 2) :
        /\ SubSeq(href, i, i + 2) = <<":","/","/">>
        /\ \A j \in 1..(i - 1) : LowerChar(href[j]) \in { Lowers[k] : k \in 1..Len(Lowers) }

\* the link of a cell is that of its first anchor only: the base URL followed
\* by a root-relative href, and nothing when the cell has no anchor
LinkOfFirstAnchor(anchors, link) ==
    /\ anchors = <<>> => link = <<>>
    /\ (anchors # <<>> /\ anchors[1].has_href /\ StartsWith(anchors[1].href, <<"/">>)
            /\ ~StartsWith(anchors[1].href, <<"/","/">>))
          => link = JAGRITI_BASE_URL \o anchors[1].href

\* every parsed record carries the link of the first cell of its own row
RecordLinks ==
    q_in.op = "parse_html_response" =>
        LET rows == DataRows(q_in.name) IN
        \A j \in 1..Len(q_out.cases) :
            LinkOfFirstAnchor(rows[NthWellFormed(rows, j)].anchors,
                              q_out.cases[j].document_link)

MarkerAt(html) ==
    \E m \in markers : \E i \in 1..Len(html) :
        /\ i + Len(m) - 1 <= Len(html)
        /\ \A j \in 1..Len(m) : LowerChar(html[i + j - 1]) = m[j]

\* C15: the sentinel flags an html text exactly when, lower-cased, it contains
\* one of the four markers; a text with none of them, the empty text included,
\* is not flagged.
C15_FlaggedIffMarker ==
    q_in.op = "detect_captcha" =>
        /\ q_out = MarkerAt(q_in.name)
        /\ q_in.name = <<>> => q_out = FALSE

C15_Witness ==
    /\ q_in.op = "detect_captcha"
    /\ q_out = TRUE
    /\ \A m \in markers : ~Contains(q_in.name, m)

ParseOps == {"soup", "options", "form", "rows"}

\* C16: every page a run has read (the states page, the commissions page, the
\* entry page of the form discovery, the answer to the submission) is given
\* to the sentinel before anything parses it, and a page the sentinel flags is
\* never searched for select options, form fields or table rows.
C16_CheckedBeforeParsed ==
    \A p \in Procs :
        LET e == loc[p].events IN
        \A i \in 1..Len(e) :
            /\ e[i].op \in ParseOps =>
                    \E j \in 1..(i - 1) : e[j].op = "check" /\ e[j].page = e[i].page
            /\ e[i].op \in {"options", "form", "rows"} => ~detect_captcha(e[i].html)

IsPrefix(a, b) == Len(a) <= Len(b) /\ SubSeq(b, 1, Len(a)) = a

\* the terminal failure an exception of search_cases stands for
FailureKind(exc) ==
    IF exc.cls = "ValueError" THEN "NOT_FOUND"
    ELSE IF /\ exc.cls = "RuntimeError"
            /\ exc.msg \in { "Captcha encountered while loading commissions",
                              "Captcha encountered during search" }
         THEN "BLOCKED"
    ELSE "INTERNAL"

\* C17: a search run enters the stages RESOLVE_STATE, RESOLVE_COMMISSION,
\* SUBMIT, CHALLENGE_CHECK, PARSE, DONE in this order, none skipped and none
\* twice; it ends with all six and an answer, or before DONE with an
\* exception; and PARSE is not entered for a submission response the sentinel
\* flagged.
C17_StagesInOrder ==
    \A t \in SearchTasks :
        req[t].route \in SearchTypes =>
            LET st == loc[t].stages IN
            /\ st # <<>> /\ IsPrefix(st, Stages)
            /\ pc[t] = "done" =>
                /\ st = Stages <=> out[t].exc = NoExc
                /\ st = Stages <=> out[t].status = 200
                /\ st # Stages => FailureKind(out[t].exc) \in {"NOT_FOUND", "BLOCKED", "INTERNAL"}
            /\ (\E i \in 1..Len(st) : st[i] = "PARSE") =>
                    (loc[t].html_from = "submit" /\ ~detect_captcha(loc[t].html))

C17_Witness ==
    \E t \in SearchTasks :
        /\ SearchDone(t)
        /\ loc[t].stages = SubSeq(Stages, 1, 4)
        /\ loc[t].html_from = "submit"
        /\ detect_captcha(loc[t].html)
        /\ out[t].exc.cls = "RuntimeError"

Count(cs, what) == Cardinality({ i \in 1..Len(cs) : cs[i].what = what })

\* the calls of a search run are, in order, at most one commission load, at
\* most one form-page fetch and at most one submission
OnceEach(cs) ==
    /\ \A w \in {"commissions", "form", "submit"} : Count(cs, w) <= 1
    /\ \A i \in 1..Len(cs) : cs[i].what \in {"commissions", "form", "submit"}
    /\ \A i, j \in 1..Len(cs) :
            (i < j) => <<cs[i].what, cs[j].what>> \in
                          { <<"commissions", "form">>, <<"commissions", "submit">>,
                            <<"form", "submit">> }

\* C20: one search run issues the commission load, the form-page fetch and
\* the submission at most once each and in this order; a run that finds the
\* commissions of its state cached issues no commission load; and a run that
\* has failed issues nothing more.
C20_EachStepAtMostOnce ==
    [][ \A t \in SearchTasks :
            /\ req'[t].route \in SearchTypes => OnceEach(calls'[t])
            /\ (pc[t] = "idle" /\ pc'[t] # "idle" /\ req'[t].route \in SearchTypes
                    /\ loc'[t].state_id \in DOMAIN commissions_cache)
                  => Count(calls'[t], "commissions") = 0
            /\ (pc[t] # "idle" /\ req[t].route \in SearchTypes
                    /\ Count(calls[t], "commissions") = 0)
                  => Count(calls'[t], "commissions") = 0
            /\ (pc[t] # "idle" /\ req[t].route \in SearchTypes /\ pc'[t] # "idle")
                  => /\ IsPrefix(calls[t], calls'[t])
                     /\ out'[t].exc # NoExc => calls'[t] = calls[t]
            /\ (pc[t] = "done" /\ req[t].route \in SearchTypes)
                  => pc'[t] \in {"done", "idle"} ]_vars

C20_Witness ==
    \E t \in SearchTasks :
        /\ SearchDone(t)
        /\ out[t].status = 200
        /\ loc[t].state_id \in DOMAIN commissions_cache
        /\ Len(calls[t]) = 2
        /\ calls[t][1].what = "form"
        /\ calls[t][2].what = "submit"

\* the sleeps of the call, in order
XSleeps == LET IsSleep(e) == e.ev = "sleep" IN SelectSeq(xlog, IsSleep)

\* C18: between attempt n and attempt n + 1 of one call there is exactly one
\* sleep, of DELAY_BETWEEN_REQUESTS * n: no two attempts follow each other
\* without it.
C18_SleepBetweenAttempts ==
    \A i \in 1..(Len(xlog) - 1) :
        xlog[i].ev = "attempt" =>
            /\ xlog[i + 1].ev = "sleep"
            /\ xlog[i + 1].delay = DELAY_BETWEEN_REQUESTS * xlog[i].n

Ended == xframe.mode \in {"returned", "raised"}

\* C19: whatever the attempts come to, one call makes at most MAX_RETRIES
\* attempts, and it ends: it returns a response or raises.
C19_BoundedAttemptsThenEnds ==
    /\ [](Len(XAttempts) <= MAX_RETRIES)
    /\ [](Len(XAttempts) = MAX_RETRIES => xframe.mode # "request")
    /\ <>Ended

C19_Witness ==
    /\ Len(XAttempts) = MAX_RETRIES
    /\ \A i \in 1..MAX_RETRIES : XAttempts[i].outcome \in {Status(429), Status(204)}
    /\ \E i \in 1..MAX_RETRIES : XAttempts[i].outcome = Status(204)
    /\ xframe.mode = "raised"
    /\ xframe.exc = Exc("Exception", "Max retries exceeded")

\* the run t has issued a commission load
Fetched(t) == Count(calls[t], "commissions") = 1

\* C21: whatever the interleaving of commission listings and searches, every
\* entry of the commissions cache, and every list a listing answers with, is
\* the whole list of one successful load of that state, never part of one nor
\* a mixture of two; when the portal has one answer for a state, two runs that
\* missed it together leave what one load stores.
C21_WholeEntries ==
    /\ \A k \in DOMAIN commissions_cache : commissions_cache[k] \in LoadedLists(k)
    /\ \A t \in Tasks :
            (pc[t] = "done" /\ req[t].route = "commissions" /\ out[t].status = 200)
                => out[t].body \in LoadedLists(req[t].state_id)
    /\ \A k \in DOMAIN commissions_cache :
            \A page \in CommissionsPages(k) :
                (Cardinality(LoadedLists(k)) = 1
                    /\ get_commissions(<<>>, k, ResponseReturned, "text", page).exc = NoExc)
                  => commissions_cache[k] =
                        get_commissions(<<>>, k, ResponseReturned, "text", page).cache[k]

C21_Witness ==
    /\ pc["t1"] \in {"form_wait", "done"} /\ req["t1"].route \in SearchTypes
    /\ pc["t2"] = "done" /\ req["t2"].route = "commissions"
    /\ Fetched("t1") /\ Fetched("t2")
    /\ loc["t1"].state_id = req["t2"].state_id
    /\ out["t2"].status = 200
    /\ loc["t1"].parsed > 0 /\ loc["t1"].html_from = "commissions"
    /\ req["t2"].state_id \in DOMAIN commissions_cache

\* the exception is one get_commissions raises: a name that does not resolve
\* is raised by search_cases after the load
LoadFailed(exc) == exc # NoExc /\ exc.cls # "ValueError"

\* C22: a commission load that fails (the transport, a challenge, no option
\* kept) leaves the states cache and the commissions cache as they were, so
\* that the key is still missing and a later listing of it fetches again.
C22_FailedLoadLeavesCaches ==
    [][ \A t \in Tasks :
            /\ (pc[t] = "gc_wait" /\ pc'[t] = "done" /\ LoadFailed(out'[t].exc))
                  => /\ commissions_cache' = commissions_cache
                     /\ states_cache' = states_cache
            /\ (pc[t] = "idle" /\ pc'[t] # "idle" /\ req'[t].route = "commissions"
                    /\ req'[t].state_id \notin DOMAIN commissions_cache)
                  => (pc'[t] = "gc_wait" /\ Count(calls'[t], "commissions") = 1) ]_vars

C22_Witness ==
    \E t \in Tasks :
        /\ pc[t] = "done" /\ req[t].route = "commissions"
        /\ out[t].exc.cls \in TransportClasses \cup {"Exception"}
        /\ req[t].state_id \notin DOMAIN commissions_cache
        /\ commissions_cache # <<>>

\* the names the overlay of lines 276-283 binds, for a search field
OverlayNames(search_field) ==
    {"state", "commission", "court_type", "order_type", "date_filter", search_field}

\* the type attribute says hidden or text, in any case
HiddenOrText(inp) == inp.name # "" /\ Lower(inp.type) \in {TypeHidden, TypeText}

\* C23: the fields sent bind state and commission to the resolved ids, the
\* three filters to their fixed values and the search field to the search
\* value, whatever inputs of those names the form has; every other name sent
\* is the name of a hidden or text input of the form and holds the value of the
\* first such input, and every such input's name is sent.
C23_OverlayWinsFirstInputKept ==
    q_in.op = "form_data" =>
        LET a == q_in.name
            inputs == a.form.inputs
            search_field == search_field_mapping[a.search_type]
        IN /\ q_out["state"] = a.state_id
           /\ q_out["commission"] = a.commission_id
           /\ q_out["court_type"] = "DCDRC"
           /\ q_out["order_type"] = "daily_order"
           /\ q_out["date_filter"] = "filing_date"
           /\ q_out[search_field] = a.search_value
           /\ \A n \in DOMAIN q_out \ OverlayNames(search_field) :
                \E i \in 1..Len(inputs) :
                    /\ HiddenOrText(inputs[i]) /\ inputs[i].name = n
                    /\ q_out[n] = inputs[i].value
                    /\ \A j \in 1..(i - 1) : ~(HiddenOrText(inputs[j]) /\ inputs[j].name = n)
           /\ \A i \in 1..Len(inputs) :
                HiddenOrText(inputs[i]) => inputs[i].name \in DOMAIN q_out

C23_Witness ==
    /\ q_in.op = "form_data"
    /\ q_in.name.search_type = "case_number"
    /\ q_in.name.search_value = "Reddy"
    /\ \E i, j, k \in 1..Len(q_in.name.form.inputs) :
        LET inputs == q_in.name.form.inputs IN
        /\ i < j
        /\ inputs[i].name = "tok" /\ inputs[j].name = "tok"
        /\ HiddenOrText(inputs[i]) /\ HiddenOrText(inputs[j])
        /\ inputs[i].value # inputs[j].value
        /\ inputs[k].name = "case_no"
    /\ q_out["case_no"] = "Reddy"

SearchFields == { search_field_mapping[k] : k \in SearchTypes }

\* C24: of the seven search field names, the fields sent carry the one of
\* the requested search kind and none of the other six.
C24_OneSearchFieldSent ==
    q_in.op = "form_data" =>
        DOMAIN q_out \cap SearchFields = { search_field_mapping[q_in.name.search_type] }

\* C25: once the service has stopped or has failed to start, the session
\* initialize created is not open any more.
C25_NoSessionLeftOpen ==
    pc["main"] \in {"stopped", "failed"} => session # "open"

\* C26: a run reads the body of a response only while the response is open:
\* no body is read after the response was released.
C26_BodyReadWhileOpen ==
    \A p \in Procs :
        LET e == loc[p].events IN
        \A i \in 1..Len(e) :
            e[i].op = "text" =>
                ~ \E j \in 1..(i - 1) : e[j].op = "release" /\ e[j].page = e[i].page

\* C27: the call does not sleep after its final attempt: when attempt
\* MAX_RETRIES has failed, by a transport error or by status 429, the call is
\* not asleep and no sleep follows that attempt.
C27_NoSleepAfterFinalAttempt ==
    /\ (Len(XAttempts) = MAX_RETRIES) => xframe.mode # "sleep"
    /\ \A i \in 1..Len(xlog) : xlog[i].ev = "sleep" => xlog[i].n < MAX_RETRIES

\* C28: a request is running only while the app serves, which it does only
\* after _load_states has returned; from then on the states cache is not
\* empty, and no step of any listing or search, nor the shutdown, adds,
\* removes or changes an entry of it.
C28_StatesCacheFrozenOnceServing ==
    [][ /\ \A t \in Tasks : pc'[t] # "idle" => pc'["main"] = "serving"
        /\ pc'["main"] \in {"serving", "stopped"} =>
                /\ states_cache' # <<>>
                /\ Count(calls'["main"], "states") = 1
                /\ out'["main"].exc = NoExc
        /\ pc["main"] \in {"serving", "stopped"} => states_cache' = states_cache ]_vars

C28_Witness ==
    /\ pc["main"] = "serving"
    /\ states_cache # <<>>
    /\ pc["t1"] = "done" /\ req["t1"].route \in SearchTypes /\ out["t1"].status = 200
    /\ pc["t2"] = "done" /\ req["t2"].route = "states" /\ out["t2"].status = 200
    /\ commissions_cache # <<>>

====
